---------------------------- MODULE Spec2Model ----------------------------
(***************************************************************************)
(* A model of the dicexp crate (src/src/lib.rs): the DiceBag evaluator of  *)
(* RPG dice notation.  Strings are sequences of one-character strings.     *)
(* eval_as is the string-rewriting evaluator of the source, pass by pass;  *)
(* the random generator is an arbitrary but fixed stream per seed.         *)
(***************************************************************************)
EXTENDS Integers, Sequences, FiniteSets, TLC

(***************************************************************************)
(* Bounds of the model.                                                    *)
(***************************************************************************)
\* longest expression of Spec
MaxLen == 5
\* longest expression of SpecText
MaxTextLen == 3
\* longest expression of SpecArith
MaxArithLen == 7
\* longest expression of SpecFrame
MaxFrameLen == 5
\* longest expression of SpecPair
MaxPairLen == 5
\* calls made on each DiceBag in SpecPair
MaxCalls == 2
\* period of a generator's stream of samples
TapeLen == 2
\* raw samples are 0..MaxRaw-1: every face of a die of up to MaxRaw sides occurs
MaxRaw == 2
\* SpecDice: dice terms NdS+K with N <= MaxDice, S <= MaxSides, |K| <= MaxMod
MaxDice == 2
MaxSides == 6
MaxMod == 3
MaxStepLen == 5

(***************************************************************************)
(* Characters.                                                             *)
(***************************************************************************)
DigitChars == <<"0", "1", "2", "3", "4", "5", "6", "7", "8", "9">>

\* char::is_digit(10)
IsDigit(c) == \E i \in 1..10 : DigitChars[i] = c

DigitVal(c) == (CHOOSE i \in 1..10 : DigitChars[i] = c) - 1

\* char::is_whitespace, on the whitespace the model's inputs hold
IsWhitespace(c) == c \in {" ", "\n", "\t"}

\* the characters find_operator_params takes as part of an operand
IsRunChar(c) == IsDigit(c) \/ c = "." \/ c = "-"

\* the position (1-based) of the first element of s in set cs, 0 when none:
\* str::find and find_one_of
RECURSIVE FindFrom(_, _, _)
FindFrom(s, cs, i) ==
    IF i > Len(s) THEN 0
    ELSE IF s[i] \in cs THEN i
    ELSE FindFrom(s, cs, i + 1)

find_one_of(s, cs) == FindFrom(s, cs, 1)

StartsWith(s, p) == Len(s) >= Len(p) /\ SubSeq(s, 1, Len(p)) = p

AllDigits(s) == \A i \in 1..Len(s) : IsDigit(s[i])

(***************************************************************************)
(* Integers: str::parse::<u32>, str::parse::<i64> and their Display.       *)
(* Literals of the bounded inputs stay far below 2^31, so the widths of    *)
(* u32 and i64 are never reached.                                          *)
(***************************************************************************)
RECURSIVE NatOfDigits(_)
NatOfDigits(s) ==
    IF s = <<>> THEN 0
    ELSE 10 * NatOfDigits(SubSeq(s, 1, Len(s) - 1)) + DigitVal(s[Len(s)])

RECURSIVE DigitsOfNat(_)
DigitsOfNat(n) ==
    IF n < 10 THEN <<DigitChars[n + 1]>>
    ELSE DigitsOfNat(n \div 10) \o <<DigitChars[(n % 10) + 1]>>

\* an optional '+', then at least one digit
ParseU32(s) ==
    LET body == IF s # <<>> /\ s[1] = "+" THEN Tail(s) ELSE s
    IN  IF body # <<>> /\ AllDigits(body)
        THEN [ok |-> TRUE, val |-> NatOfDigits(body)]
        ELSE [ok |-> FALSE, val |-> 0]

\* an optional '+' or '-', then at least one digit
ParseI64(s) ==
    LET signed == s # <<>> /\ s[1] \in {"+", "-"}
        body == IF signed THEN Tail(s) ELSE s
    IN  IF body # <<>> /\ AllDigits(body)
        THEN [ok |-> TRUE,
              val |-> IF signed /\ s[1] = "-" THEN 0 - NatOfDigits(body)
                      ELSE NatOfDigits(body)]
        ELSE [ok |-> FALSE, val |-> 0]

\* a formatting of integers that writes the sign of every value
FormatIntSigned(v) ==
    IF v < 0 THEN <<"-">> \o DigitsOfNat(0 - v) ELSE <<"+">> \o DigitsOfNat(v)

\* format!("{}", v) of an integer
FormatInt(v) == IF v < 0 THEN <<"-">> \o DigitsOfNat(0 - v) ELSE DigitsOfNat(v)

\* i64 division truncates toward zero (\div rounds down)
TruncDiv(a, b) ==
    LET q == (IF a < 0 THEN 0 - a ELSE a) \div (IF b < 0 THEN 0 - b ELSE b)
    IN  IF (a < 0) = (b < 0) THEN q ELSE 0 - q

(***************************************************************************)
(* f64.  A value is class "fin" (sign, num/den in lowest terms, den a      *)
(* power of two: exactly the doubles the bounded inputs produce without    *)
(* rounding), "inf", "nan", or "inexact": a quotient or literal that the   *)
(* double only approximates, whose digits the model does not compute.      *)
(***************************************************************************)
RECURSIVE Gcd(_, _)
Gcd(a, b) == IF b = 0 THEN a ELSE Gcd(b, a % b)

RECURSIVE IsPow2(_)
IsPow2(n) == IF n = 1 THEN TRUE ELSE IF n % 2 # 0 THEN FALSE ELSE IsPow2(n \div 2)

F64Inexact == [cls |-> "inexact", neg |-> FALSE, num |-> 0, den |-> 1]
F64NaN == [cls |-> "nan", neg |-> FALSE, num |-> 0, den |-> 1]
F64Inf(neg) == [cls |-> "inf", neg |-> neg, num |-> 0, den |-> 1]

\* the double nearest to (-1)^neg * num/den
F64Of(neg, num, den) ==
    LET g == Gcd(num, den)
    IN  IF IsPow2(den \div g)
        THEN [cls |-> "fin", neg |-> neg, num |-> num \div g, den |-> den \div g]
        ELSE F64Inexact

F64OfInt(v) == IF v < 0 THEN F64Of(TRUE, 0 - v, 1) ELSE F64Of(FALSE, v, 1)

RECURSIVE Pow10(_)
Pow10(k) == IF k = 0 THEN 1 ELSE 10 * Pow10(k - 1)

\* str::parse::<f64>: an optional sign, then digits with at most one '.' and
\* at least one digit, or inf / NaN; exponents do not occur in the inputs
ParseF64(s) ==
    LET signed == s # <<>> /\ s[1] \in {"+", "-"}
        neg == signed /\ s[1] = "-"
        body == IF signed THEN Tail(s) ELSE s
        dot == FindFrom(body, {"."}, 1)
        ip == IF dot = 0 THEN body ELSE SubSeq(body, 1, dot - 1)
        fp == IF dot = 0 THEN <<>> ELSE SubSeq(body, dot + 1, Len(body))
    IN  IF body = <<"i", "n", "f">> THEN [ok |-> TRUE, val |-> F64Inf(neg)]
        ELSE IF body = <<"N", "a", "N">> THEN [ok |-> TRUE, val |-> F64NaN]
        ELSE IF AllDigits(ip) /\ AllDigits(fp) /\ Len(ip) + Len(fp) > 0
        THEN [ok |-> TRUE,
              val |-> F64Of(neg, NatOfDigits(ip \o fp), Pow10(Len(fp)))]
        ELSE [ok |-> FALSE, val |-> F64NaN]

\* the decimal digits of the fraction r/den, 0 <= r < den, den a power of two
RECURSIVE FracDigits(_, _)
FracDigits(r, den) ==
    IF r = 0 THEN <<>>
    ELSE <<DigitChars[((10 * r) \div den) + 1]>> \o FracDigits((10 * r) % den, den)

\* format!("{:.}", v): an empty precision, so f64's Display: the shortest
\* decimal that reads back as v, which is the exact expansion of a "fin"
FormatF64(v) ==
    IF v.cls = "nan" THEN <<"N", "a", "N">>
    ELSE (IF v.neg THEN <<"-">> ELSE <<>>) \o
         (IF v.cls = "inf" THEN <<"i", "n", "f">>
          ELSE DigitsOfNat(v.num \div v.den) \o
               (IF v.num % v.den = 0 THEN <<>>
                ELSE <<".">> \o FracDigits(v.num % v.den, v.den)))

\* format!("{:.1}", v) of a multiple of 0.5, which a dice average is
FormatF64Prec1(v) ==
    (IF v.neg THEN <<"-">> ELSE <<>>) \o DigitsOfNat(v.num \div v.den) \o
    <<".">> \o (IF v.num % v.den = 0 THEN <<"0">> ELSE FracDigits(v.num % v.den, v.den))

\* left * right, left / right and left + right of finite operands
F64Mul(a, b) ==
    IF a.cls = "inexact" \/ b.cls = "inexact" THEN F64Inexact
    ELSE F64Of(a.neg # b.neg, a.num * b.num, a.den * b.den)

F64Div(a, b) ==
    IF a.cls = "inexact" \/ b.cls = "inexact" THEN F64Inexact
    ELSE IF b.num = 0 THEN (IF a.num = 0 THEN F64NaN ELSE F64Inf(a.neg # b.neg))
    ELSE F64Of(a.neg # b.neg, a.num * b.den, a.den * b.num)

F64Add(a, b) ==
    IF a.cls = "inexact" \/ b.cls = "inexact" THEN F64Inexact
    ELSE LET sa == (IF a.neg THEN 0 - a.num ELSE a.num) * b.den
             sb == (IF b.neg THEN 0 - b.num ELSE b.num) * a.den
             s == sa + sb
         IN  IF s = 0 THEN F64Of(a.neg /\ b.neg, 0, 1)
             ELSE IF s < 0 THEN F64Of(TRUE, 0 - s, a.den * b.den)
             ELSE F64Of(FALSE, s, a.den * b.den)

\* a <= b on finite values
F64Le(a, b) ==
    (IF a.neg THEN 0 - a.num ELSE a.num) * b.den
        <= (IF b.neg THEN 0 - b.num ELSE b.num) * a.den

(***************************************************************************)
(* The random generator.  A StdRng is its stream of samples (fixed by the  *)
(* seed it was built from) and the number of samples drawn so far.         *)
(***************************************************************************)
\* a range that starts at 0 and excludes d: gen_range(0..d)
GenRangeFromZero(rng, d) == rng.stream[(rng.pos % Len(rng.stream)) + 1] % d

\* self.rng.gen_range(1..=d): the next sample, reduced to 1..d
GenRange(rng, d) == 1 + (rng.stream[(rng.pos % Len(rng.stream)) + 1] % d)

\* the generator after n more samples were drawn
Advance(rng, n) == [rng EXCEPT !.pos = @ + n]

(***************************************************************************)
(* Outcomes of eval_as.  st is the evaluator's state on return: the rng    *)
(* and history values that are not in the code: the number of dice rolled, *)
(* the number of collapse steps taken (steps), how many of them put in a   *)
(* literal that was not strictly shorter than the text it replaced         *)
(* (unshrunk), and how many left as many operators as before (unreduced).  *)
(***************************************************************************)
Ok(x, st) == [kind |-> "Ok", x |-> x, msg |-> "", line |-> 0, col |-> 0, st |-> st]

\* Err(SyntaxError{msg, line, col}); line and col 0 stand for None
Err(msg, line, col, st) ==
    [kind |-> "Err", x |-> <<>>, msg |-> msg, line |-> line, col |-> col, st |-> st]

\* the thread panics: the call never returns
Panic(msg, st) ==
    [kind |-> "Panic", x |-> <<>>, msg |-> msg, line |-> 0, col |-> 0, st |-> st]

\* an f64 result that is a rounded double: outside the values the model computes
Inexact(st) ==
    [kind |-> "Inexact", x |-> <<>>, msg |-> "", line |-> 0, col |-> 0, st |-> st]

(***************************************************************************)
(* DiceBag::roll                                                           *)
(***************************************************************************)
\* the loop of roll: the sum of n draws of gen_range(1..=d), which are the
\* n samples that follow the first samples already drawn.  The sum is
\* split in halves, so that a long loop stays a shallow evaluation.
RECURSIVE RollSum(_, _, _, _)
RollSum(rng, d, first, n) ==
    IF n = 0 THEN 0
    ELSE IF n = 1 THEN GenRange([rng EXCEPT !.pos = first], d)
    ELSE RollSum(rng, d, first, n \div 2) + RollSum(rng, d, first + n \div 2, n - n \div 2)

RollLoop(st, n, d) ==
    [total |-> RollSum(st.rng, d, st.rng.pos, n), st |-> [st EXCEPT !.rng = Advance(@, n)]]

\* return total + m
RollReturn(r, m) == [panic |-> FALSE, total |-> r.total + m, st |-> r.st]

\* roll(n, d, m); gen_range panics on the empty range 1..=0
roll(st, n, d, m) ==
    IF n > 0 /\ d = 0 THEN [panic |-> TRUE, total |-> 0, st |-> st]
    ELSE RollReturn(RollLoop(st, n, d), m)

(***************************************************************************)
(* eval_as: normalization                                                  *)
(***************************************************************************)
\* what the scan loop pushes onto x for character c after last_c
Pushed(c, last_c) ==
    IF c = "%" THEN <<"1", "0", "0">>
    ELSE IF c \in {"x", "X"} THEN <<"*">>
    ELSE IF c = "-" /\ last_c \notin {"+", "/", "*"} THEN <<"+", "-">>
    ELSE IF c = "(" /\ (IsDigit(last_c) \/ last_c = ".") THEN <<"*", "(">>
    ELSE <<c>>

\* the scan loop from character i on, with the loop's x, line, col and last_c
RECURSIVE ScanFrom(_, _, _, _, _, _, _)
ScanFrom(s, i, mode, x, line, col, last_c) ==
    IF i > Len(s) THEN [ok |-> TRUE, x |-> x, line |-> line, col |-> col]
    ELSE LET c == s[i]
             line1 == IF c = "\n" THEN line + 1 ELSE line
             col1 == (IF c = "\n" THEN 0 ELSE col) + 1
         IN  IF IsWhitespace(c) THEN ScanFrom(s, i + 1, mode, x, line1, col1, last_c)
             ELSE IF mode # "Average" /\ c = "."
             THEN [ok |-> FALSE, x |-> x, line |-> line1, col |-> col1]
             ELSE ScanFrom(s, i + 1, mode, x \o Pushed(c, last_c), line1, col1, c)

\* the string the scan loop is run on: "0" is put before a leading sign
SignPrefixed(s) ==
    IF StartsWith(s, <<"-">>) \/ StartsWith(s, <<"+">>) THEN <<"0">> \o s ELSE s

\* eval_as up to the passes: x, or the position of a '.'
Normalize(s, mode) == ScanFrom(SignPrefixed(s), 1, mode, <<>>, 1, 0, " ")

(***************************************************************************)
(* eval_as: helpers of the passes                                          *)
(***************************************************************************)
\* the loop of find_enclosure_from, from character i on (positions 1-based)
RECURSIVE EnclosureLoop(_, _, _, _, _, _)
EnclosureLoop(text, i, depth, start, open, close) ==
    IF i > Len(text)
    THEN (IF depth > 0 THEN [kind |-> "Err", open |-> 0, close |-> 0]
          ELSE [kind |-> "None", open |-> 0, close |-> 0])
    ELSE IF text[i] = open
    THEN EnclosureLoop(text, i + 1, depth + 1, IF depth = 0 THEN i ELSE start, open, close)
    ELSE IF text[i] = close
    THEN (IF depth - 1 = 0 THEN [kind |-> "Some", open |-> start, close |-> i]
          ELSE EnclosureLoop(text, i + 1, depth - 1, start, open, close))
    ELSE EnclosureLoop(text, i + 1, depth, start, open, close)

\* find_enclosure_from: the positions of the opening and of its closing character
find_enclosure_from(text, pos, open, close) ==
    EnclosureLoop(text, pos, 0, pos, open, close)

\* the last position before p that holds no operand character, 0 when none
RECURSIVE RunStart(_, _)
RunStart(text, i) ==
    IF i = 0 THEN 0 ELSE IF ~IsRunChar(text[i]) THEN i ELSE RunStart(text, i - 1)

\* the first position after p that holds no operand character, Len+1 when none
RECURSIVE RunEnd(_, _)
RunEnd(text, i) ==
    IF i > Len(text) THEN i ELSE IF ~IsRunChar(text[i]) THEN i ELSE RunEnd(text, i + 1)

\* find_operator_params: the operands around the operator at op_pos are
\* text[start..op_pos-1] and text[op_pos+1..end]; an empty one is an error
find_operator_params(text, op_pos) ==
    LET start == RunStart(text, op_pos - 1) + 1
        end == RunEnd(text, op_pos + 1) - 1
    IN  IF start = op_pos \/ end = op_pos
        THEN [ok |-> FALSE, start |-> 0, end |-> 0]
        ELSE [ok |-> TRUE, start |-> start, end |-> end]

\* x with positions start..end replaced by middle
Splice(x, start, end, middle) ==
    SubSeq(x, 1, start - 1) \o middle \o SubSeq(x, end + 1, Len(x))

\* the operators and parentheses of x that a pass is still to collapse
PendingOperators(x) ==
    Cardinality({i \in 1..Len(x) : x[i] \in {"(", "d", "*", "/", "+"}})

\* st after the collapse step that replaces positions start..end of x by middle
Collapsed(st, x, start, end, middle) ==
    [st EXCEPT !.steps = @ + 1,
               !.unshrunk = @ + (IF Len(middle) < end - start + 1 THEN 0 ELSE 1),
               !.unreduced = @ + (IF PendingOperators(Splice(x, start, end, middle))
                                       < PendingOperators(x) THEN 0 ELSE 1)]

\* left_str / right_str of the additive pass: a leading "--" is dropped
DropDoubleNeg(s) == IF StartsWith(s, <<"-", "-">>) THEN SubSeq(s, 3, Len(s)) ELSE s

(***************************************************************************)
(* eval_as: the four passes.  Each pass is the source's loop, one          *)
(* iteration per application; the loop's exit continues with the next      *)
(* pass.  An iteration is split at the values it binds (the operator's     *)
(* position, its operands, their parsed values, the result).               *)
(***************************************************************************)
\* the additive pass
RECURSIVE AddPass(_, _, _)
AddSpliceF64(x, mode, st, p, sum) ==
    IF sum.cls = "inexact" THEN Inexact(st)
    ELSE AddPass(Splice(x, p.start, p.end, FormatF64(sum)), mode,
                 Collapsed(st, x, p.start, p.end, FormatF64(sum)))

AddF64(x, mode, st, p, left, right) ==
    IF ~left.ok \/ ~right.ok THEN Err("parse_float", 0, 0, st)
    ELSE AddSpliceF64(x, mode, st, p, F64Add(left.val, right.val))

AddI64(x, mode, st, p, left, right) ==
    IF ~left.ok \/ ~right.ok THEN Err("parse_int", 0, 0, st)
    ELSE AddPass(Splice(x, p.start, p.end, FormatInt(left.val + right.val)), mode,
                 Collapsed(st, x, p.start, p.end, FormatInt(left.val + right.val)))

AddOperands(x, mode, st, p, left_str, right_str) ==
    IF mode = "Average"
    THEN AddF64(x, mode, st, p, ParseF64(left_str), ParseF64(right_str))
    ELSE AddI64(x, mode, st, p, ParseI64(left_str), ParseI64(right_str))

AddAt(x, mode, st, i, p) ==
    IF ~p.ok THEN Err("missing_operand", 0, 0, st)
    ELSE AddOperands(x, mode, st, p, DropDoubleNeg(SubSeq(x, p.start, i - 1)),
                     DropDoubleNeg(SubSeq(x, i + 1, p.end)))

AddFound(x, mode, st, i) ==
    IF i = 0 THEN Ok(x, st) ELSE AddAt(x, mode, st, i, find_operator_params(x, i))

AddPass(x, mode, st) == AddFound(x, mode, st, FindFrom(x, {"+"}, 1))

\* the multiplicative pass
RECURSIVE MulPass(_, _, _)
MulSpliceF64(x, mode, st, p, v) ==
    IF v.cls = "inexact" THEN Inexact(st)
    ELSE MulPass(Splice(x, p.start, p.end, FormatF64(v)), mode,
                 Collapsed(st, x, p.start, p.end, FormatF64(v)))

MulF64(x, mode, st, op, p, left, right) ==
    IF ~left.ok \/ ~right.ok THEN Err("parse_float", 0, 0, st)
    ELSE MulSpliceF64(x, mode, st, p,
                      IF op = "/" THEN F64Div(left.val, right.val)
                      ELSE F64Mul(left.val, right.val))

\* left / right panics when right is 0
MulI64(x, mode, st, op, p, left, right) ==
    IF ~left.ok \/ ~right.ok THEN Err("parse_int", 0, 0, st)
    ELSE IF op = "/" /\ right.val = 0 THEN Panic("divide_by_zero", st)
    ELSE MulPass(Splice(x, p.start, p.end,
                        FormatInt(IF op = "/" THEN TruncDiv(left.val, right.val)
                                  ELSE left.val * right.val)),
                 mode,
                 Collapsed(st, x, p.start, p.end,
                           FormatInt(IF op = "/" THEN TruncDiv(left.val, right.val)
                                     ELSE left.val * right.val)))

MulOperands(x, mode, st, op, p, left_str, right_str) ==
    IF mode = "Average"
    THEN MulF64(x, mode, st, op, p, ParseF64(left_str), ParseF64(right_str))
    ELSE MulI64(x, mode, st, op, p, ParseI64(left_str), ParseI64(right_str))

MulAt(x, mode, st, i, p) ==
    IF ~p.ok THEN Err("missing_operand", 0, 0, st)
    ELSE MulOperands(x, mode, st, x[i], p, SubSeq(x, p.start, i - 1),
                     SubSeq(x, i + 1, p.end))

MulFound(x, mode, st, i) ==
    IF i = 0 THEN AddPass(x, mode, st)
    ELSE MulAt(x, mode, st, i, find_operator_params(x, i))

MulPass(x, mode, st) == MulFound(x, mode, st, find_one_of(x, {"*", "/"}))

\* the dice pass
RECURSIVE DicePass(_, _, _)
\* the total of self.roll(n, d, 0) as the term's value; dice counts the dice
Rolled(r, n) ==
    [panic |-> r.panic, middle |-> FormatInt(r.total),
     st |-> [r.st EXCEPT !.dice = @ + n]]

\* a dice pass that rolls the dice in every mode
DiceValueRolled(st, n, d, mode) == Rolled(roll(st, n, d, 0), n)

\* the value a dice term n d becomes, by mode
DiceValue(st, n, d, mode) ==
    IF mode = "Roll" THEN Rolled(roll(st, n, d, 0), n)
    ELSE [panic |-> FALSE,
          middle |-> IF mode = "Average" THEN FormatF64Prec1(F64Of(FALSE, n * (1 + d), 2))
                     ELSE IF mode = "Minimum" THEN FormatInt(n)
                     ELSE FormatInt(n * d),
          st |-> st]

DiceSplice(x, mode, p, v) ==
    IF v.panic THEN Panic("empty_range", v.st)
    ELSE DicePass(Splice(x, p.start, p.end, v.middle), mode,
                  Collapsed(v.st, x, p.start, p.end, v.middle))

DiceOperands(x, mode, st, p, n, d) ==
    IF ~n.ok \/ ~d.ok THEN Err("parse_int", 0, 0, st)
    ELSE DiceSplice(x, mode, p, DiceValue(st, n.val, d.val, mode))

DiceAt(x, mode, st, i, p) ==
    IF ~p.ok THEN Err("missing_operand", 0, 0, st)
    ELSE DiceOperands(x, mode, st, p, ParseU32(SubSeq(x, p.start, i - 1)),
                      ParseU32(SubSeq(x, i + 1, p.end)))

DiceFound(x, mode, st, i) ==
    IF i = 0 THEN MulPass(x, mode, st)
    ELSE DiceAt(x, mode, st, i, find_operator_params(x, i))

DicePass(x, mode, st) == DiceFound(x, mode, st, FindFrom(x, {"d"}, 1))

\* eval_as(dice_expression, mode) on evaluator state st; ParenPass is its
\* parentheses pass, which evaluates the enclosed text by eval_as again
RECURSIVE eval_as(_, _, _)
RECURSIVE ParenPass(_, _, _)
ParenSplice(x, mode, e, middle) ==
    IF middle.kind # "Ok" THEN middle
    ELSE ParenPass(Splice(x, e.open, e.close, middle.x), mode,
                   Collapsed(middle.st, x, e.open, e.close, middle.x))

ParenAt(x, mode, st, e) ==
    IF e.kind = "Err" THEN Err("unmatched_open", 0, 0, st)
    ELSE IF e.kind = "None" THEN Err("unmatched", 0, 0, st)
    ELSE ParenSplice(x, mode, e, eval_as(SubSeq(x, e.open + 1, e.close - 1), mode, st))

ParenFound(x, mode, st, i) ==
    IF i = 0 THEN DicePass(x, mode, st)
    ELSE ParenAt(x, mode, st, find_enclosure_from(x, i, "(", ")"))

ParenPass(x, mode, st) == ParenFound(x, mode, st, FindFrom(x, {"("}, 1))

Scanned(n, mode, st) ==
    IF ~n.ok THEN Err("decimal", n.line, n.col, st) ELSE ParenPass(n.x, mode, st)

eval_as(dice_expression, mode, st) == Scanned(Normalize(dice_expression, mode), mode, st)

(***************************************************************************)
(* The public evaluators.  A result is kind Ok with val (an integer, an    *)
(* f64, or a DiceRoll), or the Err / Panic / Inexact of eval_as.           *)
(***************************************************************************)
Value(v, st) == [kind |-> "Ok", val |-> v, msg |-> "", line |-> 0, col |-> 0, st |-> st]

Failure(r) == [kind |-> r.kind, val |-> 0, msg |-> r.msg, line |-> r.line,
               col |-> r.col, st |-> r.st]

\* .parse::<i64>().map_err(..) of eval_total, eval_min and eval_max
ParsedInt(r, v) ==
    IF ~v.ok THEN Failure(Err("parse_int", 0, 0, r.st)) ELSE Value(v.val, r.st)

IntOf(r) == IF r.kind # "Ok" THEN Failure(r) ELSE ParsedInt(r, ParseI64(r.x))

eval_total(dice_expression, st) == IntOf(eval_as(dice_expression, "Roll", st))

eval_min(dice_expression, st) == IntOf(eval_as(dice_expression, "Minimum", st))

eval_max(dice_expression, st) == IntOf(eval_as(dice_expression, "Maximum", st))

\* .parse::<f64>().map_err(..) of eval_ave
ParsedFloat(r, v) ==
    IF ~v.ok THEN Failure(Err("parse_float", 0, 0, r.st))
    ELSE IF v.val.cls = "inexact" THEN Failure(Inexact(r.st))
    ELSE Value(v.val, r.st)

FloatOf(r) == IF r.kind # "Ok" THEN Failure(r) ELSE ParsedFloat(r, ParseF64(r.x))

eval_ave(dice_expression, st) == FloatOf(eval_as(dice_expression, "Average", st))

\* eval: the four evaluations in the order of the struct literal, each with ?
EvalAverage(total, min, max, average) ==
    IF average.kind # "Ok" THEN average
    ELSE Value([total |-> total.val, min |-> min.val, max |-> max.val,
                average |-> average.val], average.st)

EvalMaximum(e, total, min, max) ==
    IF max.kind # "Ok" THEN max ELSE EvalAverage(total, min, max, eval_ave(e, max.st))

EvalMinimum(e, total, min) ==
    IF min.kind # "Ok" THEN min ELSE EvalMaximum(e, total, min, eval_max(e, min.st))

EvalRolled(e, total) ==
    IF total.kind # "Ok" THEN total ELSE EvalMinimum(e, total, eval_min(e, total.st))

eval(dice_expression, st) == EvalRolled(dice_expression, eval_total(dice_expression, st))

(***************************************************************************)
(* State.                                                                  *)
(***************************************************************************)
VARIABLES
    input,      \* the dice expression the caller passes
    params,     \* what the caller knows of input (how it was built)
    tape,       \* the stream of samples a StdRng built from each seed yields
    clock,      \* the system time new_simple_rng reads
    bags,       \* the DiceBag instances: whether made, from which seed, the rng
    log,        \* per DiceBag: calls made, calls failed, the last call
    budget,     \* calls the caller makes on each DiceBag
    aborted     \* a panic has ended the process

vars == <<input, params, tape, clock, bags, log, budget, aborted>>

Bags == {"A", "B"}

\* seeds, and readings of the clock
Seeds == {0, 1}

Modes == {"Roll", "Minimum", "Maximum", "Average"}

Strings(alphabet, n) == UNION {[1..k -> alphabet] : k \in 0..n}

Streams(len, raw) == [1..len -> 0..(raw - 1)]

(***************************************************************************)
(* Construction.                                                           *)
(***************************************************************************)
\* a generator that takes its seed from the system time, whatever seed is
TimeSeededRng(seed) == [stream |-> tape[clock], pos |-> 0]

\* simple_rng(seed): the StdRng of that seed, no sample drawn
simple_rng(seed) == [stream |-> tape[seed], pos |-> 0]

\* new_simple_rng(): simple_rng of the current time
new_simple_rng == simple_rng(clock)

NoBag == [made |-> FALSE, explicit |-> FALSE, seed |-> 0,
          rng |-> [stream |-> <<0>>, pos |-> 0], dice |-> 0]

\* DiceBag::new(rng); explicit and seed record where rng came from
DiceBag_new(rng, explicit, seed) ==
    [made |-> TRUE, explicit |-> explicit, seed |-> seed, rng |-> rng, dice |-> 0]

NoCall == [op |-> "none", before |-> 0, dice |-> 0, norm |-> <<>>,
           ret |-> [kind |-> "none", val |-> 0, msg |-> "", line |-> 0, col |-> 0],
           after |-> 0, steps |-> 0, unshrunk |-> 0, unreduced |-> 0]

NoLog == [calls |-> 0, errs |-> 0, last |-> NoCall]

\* DiceBag::new(simple_rng(seed)), as app.rs does with --seed
New(b, seed) ==
    /\ ~bags[b].made /\ ~aborted
    /\ \A c \in Bags : log[c].calls = 0
    /\ bags' = [bags EXCEPT ![b] = DiceBag_new(simple_rng(seed), TRUE, seed)]
    /\ UNCHANGED <<input, params, tape, clock, log, budget, aborted>>

\* DiceBag::new(new_simple_rng()), as app.rs does without --seed
NewTimed(b) ==
    /\ ~bags[b].made /\ ~aborted
    /\ \A c \in Bags : log[c].calls = 0
    /\ bags' = [bags EXCEPT ![b] = DiceBag_new(new_simple_rng, FALSE, clock)]
    /\ UNCHANGED <<input, params, tape, clock, log, budget, aborted>>

\* the system time moves on to its next millisecond while a DiceBag is
\* still to be made
Tick ==
    /\ clock + 1 \in Seeds
    /\ \E b \in Bags : ~bags[b].made
    /\ \A c \in Bags : log[c].calls = 0
    /\ clock' = clock + 1
    /\ UNCHANGED <<input, params, tape, bags, log, budget, aborted>>

(***************************************************************************)
(* Calls.  With both bags made, the caller repeats on B each call it made  *)
(* on A, so the two see the same sequence of calls.                        *)
(***************************************************************************)
ModeOf(op) ==
    CASE op = "eval_min" -> "Minimum"
      [] op = "eval_max" -> "Maximum"
      [] op = "eval_ave" -> "Average"
      [] OTHER -> "Roll"

Turn(b, op) ==
    /\ bags[b].made /\ ~aborted /\ log[b].calls < budget
    /\ b = "A" => (bags["B"].made => log["A"].calls = log["B"].calls)
    /\ b = "B" => (bags["A"].made => /\ log["B"].calls < log["A"].calls
                                     /\ op = log["A"].last.op)

\* bag b has run op on input and got r
Returned(b, op, r) ==
    /\ bags' = [bags EXCEPT ![b].rng = r.st.rng, ![b].dice = r.st.dice]
    /\ log' = [log EXCEPT ![b] =
                 [calls |-> @.calls + 1,
                  errs |-> @.errs + (IF r.kind = "Err" THEN 1 ELSE 0),
                  last |-> [op |-> op, before |-> bags[b].rng.pos,
                            dice |-> r.st.dice - bags[b].dice,
                            norm |-> Normalize(input, ModeOf(op)).x,
                            ret |-> [kind |-> r.kind, val |-> r.val, msg |-> r.msg,
                                     line |-> r.line, col |-> r.col],
                            after |-> r.st.rng.pos,
                            steps |-> r.st.steps, unshrunk |-> r.st.unshrunk,
                            unreduced |-> r.st.unreduced]]]
    /\ aborted' = (r.kind = "Panic")
    /\ UNCHANGED <<input, params, tape, clock, budget>>

StateOf(b) == [rng |-> bags[b].rng, dice |-> bags[b].dice,
               steps |-> 0, unshrunk |-> 0, unreduced |-> 0]

Eval(b) == Turn(b, "eval") /\ Returned(b, "eval", eval(input, StateOf(b)))

EvalTotal(b) ==
    Turn(b, "eval_total") /\ Returned(b, "eval_total", eval_total(input, StateOf(b)))

EvalMin(b) == Turn(b, "eval_min") /\ Returned(b, "eval_min", eval_min(input, StateOf(b)))

EvalMax(b) == Turn(b, "eval_max") /\ Returned(b, "eval_max", eval_max(input, StateOf(b)))

EvalAve(b) == Turn(b, "eval_ave") /\ Returned(b, "eval_ave", eval_ave(input, StateOf(b)))

Calls ==
    \E b \in Bags : Eval(b) \/ EvalTotal(b) \/ EvalMin(b) \/ EvalMax(b) \/ EvalAve(b)

(***************************************************************************)
(* Spec: one DiceBag, one call, on every string of up to MaxLen            *)
(* characters of Alphabet, for every stream of samples.                    *)
(***************************************************************************)
Alphabet == {"0", "1", "2", "d", "/", "-", "(", ")"}

NoParams == [form |-> "string"]

\* one DiceBag, made from seed 0, whose stream is any of streams
OneBag(streams) ==
    /\ \E str \in streams : tape = [s \in Seeds |-> str]
    /\ clock = 0
    /\ bags = [b \in Bags |-> IF b = "A" THEN DiceBag_new(simple_rng(0), TRUE, 0)
                              ELSE NoBag]
    /\ log = [b \in Bags |-> NoLog]
    /\ budget = 1
    /\ aborted = FALSE

Init ==
    /\ input \in Strings(Alphabet, MaxLen)
    /\ params = NoParams
    /\ OneBag(Streams(TapeLen, MaxRaw))

Next == Calls

Spec == Init /\ [][Next]_vars

(***************************************************************************)
(* What the caller can observe of the last call on the DiceBag A.         *)
(***************************************************************************)
Last == log["A"].last

Called(op) == Last.op = op

CalledAny == Last.op # "none"

\* the evaluator state the last call started from
StateBefore == [rng |-> [stream |-> bags["A"].rng.stream, pos |-> Last.before],
                dice |-> 0, steps |-> 0, unshrunk |-> 0, unreduced |-> 0]

Occurrences(s, c) == Cardinality({i \in 1..Len(s) : s[i] = c})

IsNumeral(s) == s # <<>> /\ AllDigits(s)

(***************************************************************************)
(* Ordering of the DiceRoll that eval returns.                             *)
(***************************************************************************)
F64IsFinite(v) == v.cls = "fin"

\* C1: whenever eval succeeds, the DiceRoll it returns has
\* min <= total <= max and min <= average <= max, whatever the draws were.
EvalOrdersDiceRoll ==
    (Called("eval") /\ Last.ret.kind = "Ok") =>
        /\ Last.ret.val.min <= Last.ret.val.total
        /\ Last.ret.val.total <= Last.ret.val.max
        /\ F64IsFinite(Last.ret.val.average)
        /\ F64Le(F64OfInt(Last.ret.val.min), Last.ret.val.average)
        /\ F64Le(Last.ret.val.average, F64OfInt(Last.ret.val.max))

(***************************************************************************)
(* Panics.                                                                 *)
(***************************************************************************)
\* C3: every call of eval, eval_total, eval_min, eval_max and eval_ave ends
\* by returning a value or a SyntaxError; none aborts with a panic.
NoCallPanics == ~aborted /\ Last.ret.kind # "Panic"

(***************************************************************************)
(* A dice term subtracted from a literal: A-NdS.                           *)
(***************************************************************************)
MinusAt == FindFrom(input, {"-"}, 1)

DAt == FindFrom(input, {"d"}, 1)

Minuend == SubSeq(input, 1, MinusAt - 1)

DiceCount == SubSeq(input, MinusAt + 1, DAt - 1)

DiceSides == SubSeq(input, DAt + 1, Len(input))

\* input reads A-NdS with numerals A, N >= 1 and S >= 1
IsLiteralMinusDice ==
    /\ MinusAt > 0 /\ DAt > MinusAt
    /\ IsNumeral(Minuend) /\ IsNumeral(DiceCount) /\ IsNumeral(DiceSides)
    /\ NatOfDigits(DiceCount) >= 1 /\ NatOfDigits(DiceSides) >= 1

\* C9: A-NdS evaluates successfully in every mode (by each of the five
\* calls), and every Roll-mode total lies in [A - N*S, A - N].
LiteralMinusDiceEvaluates ==
    (CalledAny /\ IsLiteralMinusDice) =>
        /\ Last.ret.kind = "Ok"
        /\ Called("eval_total") =>
             /\ NatOfDigits(Minuend) - NatOfDigits(DiceCount) * NatOfDigits(DiceSides)
                    <= Last.ret.val
             /\ Last.ret.val <= NatOfDigits(Minuend) - NatOfDigits(DiceCount)

(***************************************************************************)
(* A parenthesized group next to a numeral: (E)k and k(E).                 *)
(***************************************************************************)
OpenAt == FindFrom(input, {"("}, 1)

CloseAt == FindFrom(input, {")"}, 1)

OneGroup ==
    /\ Occurrences(input, "(") = 1 /\ Occurrences(input, ")") = 1
    /\ OpenAt < CloseAt

Group == SubSeq(input, OpenAt + 1, CloseAt - 1)

\* input reads (E)k: one group, then a numeral
IsGroupThenNumeral ==
    OneGroup /\ OpenAt = 1 /\ IsNumeral(SubSeq(input, CloseAt + 1, Len(input)))

\* input reads k(E): a numeral, then one group
IsNumeralThenGroup ==
    OneGroup /\ CloseAt = Len(input) /\ IsNumeral(SubSeq(input, 1, OpenAt - 1))

Neighbour ==
    IF IsGroupThenNumeral THEN SubSeq(input, CloseAt + 1, Len(input))
    ELSE SubSeq(input, 1, OpenAt - 1)

\* the value of the group alone, evaluated from the state the call started in
GroupValue == eval_total(Group, StateBefore)

\* C10: when a group stands directly next to a numeral, eval_total either
\* returns the product of the two values or fails with a SyntaxError; it
\* never returns the digits of the one joined to the digits of the other.
GroupBesideNumeralMultiplies ==
    (Called("eval_total") /\ (IsGroupThenNumeral \/ IsNumeralThenGroup)
        /\ GroupValue.kind = "Ok") =>
        \/ Last.ret.kind = "Err"
        \/ /\ Last.ret.kind = "Ok"
           /\ Last.ret.val = GroupValue.val * NatOfDigits(Neighbour)

(***************************************************************************)
(* SpecArith: the caller writes a well-formed dice-free expression, one    *)
(* step of the grammar at a time, and then makes one call.  params keeps   *)
(* how input parses (level: atom, unary, prod or sum) and ref, its value   *)
(* in standard integer arithmetic.                                         *)
(***************************************************************************)
ArithLiterals == {<<"0">>, <<"2">>, <<"7">>}

TimesSigns == {"*", "x", "X"}

Writing == params.form = "arith" /\ log["A"].calls = 0

Written(text, level, ref) ==
    /\ Len(text) <= MaxArithLen
    /\ input' = text
    /\ params' = [form |-> "arith", level |-> level, ref |-> ref]
    /\ UNCHANGED <<tape, clock, bags, log, budget, aborted>>

Signed(neg, k) == IF neg THEN <<"-">> \o k ELSE k

SignedValue(neg, k) == IF neg THEN 0 - NatOfDigits(k) ELSE NatOfDigits(k)

\* an integer literal
Literal(k) ==
    Writing /\ params.level = "empty" /\ Written(k, "atom", NatOfDigits(k))

\* ( input )
Parenthesize ==
    Writing /\ params.level # "empty"
        /\ Written(<<"(">> \o input \o <<")">>, "atom", params.ref)

\* - input, input an atom
Negate ==
    Writing /\ params.level = "atom"
        /\ Written(<<"-">> \o input, "unary", 0 - params.ref)

\* k( input ): a digit directly before '(' multiplies
Juxtapose(k) ==
    Writing /\ params.level # "empty"
        /\ Written(k \o <<"(">> \o input \o <<")">>, "prod", NatOfDigits(k) * params.ref)

\* input * k or input * -k, with x and X for *
TimesRight(sign, neg, k) ==
    Writing /\ params.level \in {"atom", "unary", "prod"}
        /\ Written(input \o <<sign>> \o Signed(neg, k), "prod",
                   params.ref * SignedValue(neg, k))

\* input / k or input / -k, k not 0
OverRight(neg, k) ==
    Writing /\ params.level \in {"atom", "unary", "prod"} /\ NatOfDigits(k) # 0
        /\ Written(input \o <<"/">> \o Signed(neg, k), "prod",
                   TruncDiv(params.ref, SignedValue(neg, k)))

\* input + k and input - k
PlusRight(k) ==
    Writing /\ params.level # "empty"
        /\ Written(input \o <<"+">> \o k, "sum", params.ref + NatOfDigits(k))

MinusRight(k) ==
    Writing /\ params.level # "empty"
        /\ Written(input \o <<"-">> \o k, "sum", params.ref - NatOfDigits(k))

\* k * input and k / input, input an atom or a negated atom
TimesLeft(k, sign) ==
    Writing /\ params.level \in {"atom", "unary"}
        /\ Written(k \o <<sign>> \o input, "prod", NatOfDigits(k) * params.ref)

OverLeft(k) ==
    Writing /\ params.level \in {"atom", "unary"} /\ params.ref # 0
        /\ Written(k \o <<"/">> \o input, "prod", TruncDiv(NatOfDigits(k), params.ref))

\* k + input and k - input, input not starting with a sign
PlusLeft(k) ==
    Writing /\ params.level # "empty" /\ input[1] # "-"
        /\ Written(k \o <<"+">> \o input, "sum", NatOfDigits(k) + params.ref)

\* input an atom or a product: k - a*b is k - (a*b)
MinusLeft(k) ==
    Writing /\ params.level \in {"atom", "prod"} /\ input[1] # "-"
        /\ Written(k \o <<"-">> \o input, "sum", NatOfDigits(k) - params.ref)

Write ==
    \/ Parenthesize
    \/ Negate
    \/ \E k \in ArithLiterals :
          \/ Literal(k)
          \/ Juxtapose(k)
          \/ PlusRight(k)
          \/ MinusRight(k)
          \/ OverLeft(k)
          \/ PlusLeft(k)
          \/ MinusLeft(k)
          \/ \E neg \in BOOLEAN : OverRight(neg, k)
          \/ \E sign \in TimesSigns :
                \/ TimesLeft(k, sign)
                \/ \E neg \in BOOLEAN : TimesRight(sign, neg, k)

\* the call is made on a written expression only
CallWritten == params.level # "empty" /\ Calls

InitArith ==
    /\ input = <<>>
    /\ params = [form |-> "arith", level |-> "empty", ref |-> 0]
    /\ OneBag(Streams(1, 1))

NextArith == Write \/ CallWritten

SpecArith == InitArith /\ [][NextArith]_vars

\* C2: on a well-formed dice-free expression eval_total returns the value of
\* standard integer arithmetic: parentheses first, then * and / left to
\* right, then + and - left to right, division truncating toward zero.
EvalTotalIsIntegerArithmetic ==
    (params.form = "arith" /\ Called("eval_total")) =>
        Last.ret.kind = "Ok" /\ Last.ret.val = params.ref

(***************************************************************************)
(* SpecText: one DiceBag, one call, on every string of up to MaxTextLen    *)
(* characters of TextAlphabet: signs, whitespace, line breaks and '.'.     *)
(***************************************************************************)
TextAlphabet ==
    {"1", ".", " ", "\n", "\t", "-", "+", "*", "/", "x", "X", "%", "(", ")"}

InitText ==
    /\ input \in Strings(TextAlphabet, MaxTextLen)
    /\ params = NoParams
    /\ OneBag(Streams(1, 1))

SpecText == InitText /\ [][Next]_vars

\* position in input of its first '.', counted as a reader of the text does
FirstDot == FindFrom(input, {"."}, 1)

LineBreaksBefore(i) == {j \in 1..(i - 1) : input[j] = "\n"}

LineOf(i) == 1 + Cardinality(LineBreaksBefore(i))

\* the first character of a line is column 1
ColumnOf(i) ==
    IF LineBreaksBefore(i) = {} THEN i
    ELSE i - (CHOOSE j \in LineBreaksBefore(i) : \A k \in LineBreaksBefore(i) : k <= j)

\* C4: an expression with a '.' evaluated in Roll, Minimum or Maximum mode
\* fails with a SyntaxError whose line and col are the 1-based line and
\* column of the first '.' in the caller's string.
DecimalErrorLocatesDot ==
    (CalledAny /\ ~Called("eval_ave") /\ FirstDot > 0) =>
        /\ Last.ret.kind = "Err" /\ Last.ret.msg = "decimal"
        /\ Last.ret.line = LineOf(FirstDot)
        /\ Last.ret.col = ColumnOf(FirstDot)

\* the normalization step applied to its own output
Renormalized == Normalize(Last.norm, ModeOf(Last.op))

FirstVisible == CHOOSE i \in 1..Len(input) :
                    ~IsWhitespace(input[i]) /\ \A j \in 1..(i - 1) : IsWhitespace(input[j])

StartsWithSign ==
    (\E i \in 1..Len(input) : ~IsWhitespace(input[i])) /\ input[FirstVisible] \in {"+", "-"}

\* C7: normalization is idempotent: normalizing the normalized string gives
\* it back unchanged; and when the first non-whitespace character of the
\* input is '+' or '-', the normalized string starts with a digit or '('.
NormalizationIsIdempotent ==
    (CalledAny /\ FirstDot = 0) =>
        /\ Renormalized.ok /\ Renormalized.x = Last.norm
        /\ StartsWithSign => (IsDigit(Last.norm[1]) \/ Last.norm[1] = "(")

(***************************************************************************)
(* SpecDice: one DiceBag, one call, on a dice term NdS, NdS+K or NdS-K,    *)
(* for every outcome of the N draws.  params keeps N, S and the signed K.  *)
(* N and S are small: the u32 product n * d of Maximum mode stays far      *)
(* below 2^32.                                                             *)
(***************************************************************************)
Modifiers == {""} \cup {"+", "-"}

ModifierText(sign, k) == IF sign = "" THEN <<>> ELSE <<sign>> \o DigitsOfNat(k)

ModifierValue(sign, k) == IF sign = "" THEN 0 ELSE IF sign = "-" THEN 0 - k ELSE k

\* the outcomes of n draws of a die of d sides
Outcomes(n, d) == [1..(IF n = 0 THEN 1 ELSE n) -> 0..(d - 1)]

InitDice ==
    \E n \in 0..MaxDice, d \in 1..MaxSides, sign \in Modifiers, k \in 0..MaxMod :
        /\ sign = "" => k = 0
        /\ input = DigitsOfNat(n) \o <<"d">> \o DigitsOfNat(d) \o ModifierText(sign, k)
        /\ params = [form |-> "dice", n |-> n, d |-> d, k |-> ModifierValue(sign, k)]
        /\ OneBag(Outcomes(n, d))

SpecDice == InitDice /\ [][Next]_vars

LeastTotal == params.n + params.k

GreatestTotal == params.n * params.d + params.k

\* N*(1+S)/2 + K as an f64
MeanTotal ==
    IF params.n * (1 + params.d) + 2 * params.k < 0
    THEN F64Of(TRUE, 0 - (params.n * (1 + params.d) + 2 * params.k), 2)
    ELSE F64Of(FALSE, params.n * (1 + params.d) + 2 * params.k, 2)

\* C5: for NdS with N >= 0 and S >= 1, optionally followed by +K or -K, eval
\* returns min = N + K, max = N*S + K and average = N*(1+S)/2 + K, and
\* every Roll-mode total lies in [N + K, N*S + K]; eval_min, eval_max,
\* eval_ave and eval_total return the same values on their own.
DiceTermValues ==
    (params.form = "dice" /\ CalledAny) =>
        /\ Last.ret.kind = "Ok"
        /\ Called("eval") =>
             /\ Last.ret.val.min = LeastTotal
             /\ Last.ret.val.max = GreatestTotal
             /\ Last.ret.val.average = MeanTotal
             /\ LeastTotal <= Last.ret.val.total
             /\ Last.ret.val.total <= GreatestTotal
        /\ Called("eval_total") =>
             LeastTotal <= Last.ret.val /\ Last.ret.val <= GreatestTotal
        /\ Called("eval_min") => Last.ret.val = LeastTotal
        /\ Called("eval_max") => Last.ret.val = GreatestTotal
        /\ Called("eval_ave") => Last.ret.val = MeanTotal

\* eval has returned for a term with a negative modifier whose dice showed
\* neither all ones nor all their greatest face
DiceTermRolledBetween ==
    /\ params.form = "dice" /\ params.k < 0 /\ params.n > 1
    /\ Called("eval") /\ Last.ret.kind = "Ok"
    /\ Last.ret.val.min < Last.ret.val.total
    /\ Last.ret.val.total < Last.ret.val.max

(***************************************************************************)
(* SpecPair: the caller makes two DiceBags, each from an explicit seed or  *)
(* from the system time, and makes the same MaxCalls calls, on the same    *)
(* expression, on both.                                                    *)
(***************************************************************************)
PairAlphabet == {"3", "d"}

\* one generator: the samples of seed s count up from s + 1, modulo MaxRaw
SeededStreams == [s \in Seeds |-> [i \in 1..TapeLen |-> (s + i) % MaxRaw]]

InitPair ==
    /\ input \in Strings(PairAlphabet, MaxPairLen)
    /\ params = NoParams
    /\ tape = SeededStreams
    /\ clock = 0
    /\ bags = [b \in Bags |-> NoBag]
    /\ log = [b \in Bags |-> NoLog]
    /\ budget = MaxCalls
    /\ aborted = FALSE

NextPair ==
    \/ \E b \in Bags : NewTimed(b) \/ \E seed \in Seeds : New(b, seed)
    \/ Tick
    \/ Calls

SpecPair == InitPair /\ [][NextPair]_vars

\* both DiceBags were made from the same explicit seed and have answered
\* the same calls
SameSeedSameCalls ==
    /\ bags["A"].made /\ bags["A"].explicit
    /\ bags["B"].made /\ bags["B"].explicit
    /\ bags["A"].seed = bags["B"].seed
    /\ log["A"].calls = log["B"].calls
    /\ log["A"].calls > 0

\* C6: two DiceBags made from the same explicit seed and given the same
\* sequence of calls return identical results, values and errors alike, at
\* every call, also after calls that failed with a SyntaxError.
SameSeedSameResults ==
    SameSeedSameCalls =>
        /\ log["A"].last.op = log["B"].last.op
        /\ log["A"].last.ret.kind = log["B"].last.ret.kind
        /\ log["A"].last.ret = log["B"].last.ret
        /\ log["A"].errs = log["B"].errs

\* both have answered every call; an earlier call failed and the last one
\* rolled dice and returned a value
SameSeedRolledAfterFailure ==
    /\ SameSeedSameCalls
    /\ log["B"].calls = budget
    /\ log["B"].errs > 0
    /\ log["B"].last.ret.kind = "Ok"
    /\ log["B"].last.after > log["B"].last.before
    /\ log["B"].last.before > 0

(***************************************************************************)
(* SpecFrame: one DiceBag, one call, on every string of up to MaxFrameLen  *)
(* characters of FrameAlphabet: dice terms, nested and in parentheses.     *)
(***************************************************************************)
FrameAlphabet == {"2", "d", "(", ")"}

InitFrame ==
    /\ input \in Strings(FrameAlphabet, MaxFrameLen)
    /\ params = NoParams
    /\ OneBag(Streams(1, MaxRaw))

SpecFrame == InitFrame /\ [][Next]_vars

\* samples the last call drew
Drawn == Last.after - Last.before

\* input without the one pair of parentheses around it, if it has one
Unwrapped ==
    IF Len(input) >= 2 /\ input[1] = "(" /\ input[Len(input)] = ")"
    THEN SubSeq(input, 2, Len(input) - 1)
    ELSE input

TermDAt == FindFrom(Unwrapped, {"d"}, 1)

TermCount == SubSeq(Unwrapped, 1, TermDAt - 1)

\* input reads NdS or (NdS)
IsOneTerm ==
    /\ TermDAt > 0
    /\ IsNumeral(TermCount)
    /\ IsNumeral(SubSeq(Unwrapped, TermDAt + 1, Len(Unwrapped)))

\* C8: eval_min, eval_max and eval_ave leave the generator as it was,
\* whether they succeed or fail; a successful eval_total draws one sample
\* per die, N for each term NdS it resolves, also inside parentheses; and
\* eval advances the generator exactly as one eval_total does.
OnlyRollDraws ==
    /\ (Called("eval_min") \/ Called("eval_max") \/ Called("eval_ave")) =>
          Drawn = 0 /\ Last.dice = 0
    /\ (Called("eval_total") /\ Last.ret.kind = "Ok") =>
          /\ Drawn = Last.dice
          /\ IsOneTerm => Drawn = NatOfDigits(TermCount)
    /\ Called("eval") =>
          Last.after = eval_total(input, StateBefore).st.rng.pos

\* eval has succeeded on a dice term in parentheses and drew a sample for
\* each of its dice
EvalDrewInParentheses ==
    /\ Called("eval") /\ Last.ret.kind = "Ok"
    /\ input[1] = "(" /\ IsOneTerm
    /\ Drawn = NatOfDigits(TermCount) /\ Drawn > 1

(***************************************************************************)
(* SpecSteps: one DiceBag, one call, on every string of up to MaxStepLen   *)
(* characters that the four passes act on: parentheses, dice, product,     *)
(* quotient and difference.  Every sample is 0, so every die rolls 1; the  *)
(* Maximum mode gives every die its greatest face.                         *)
(***************************************************************************)
StepAlphabet == {"1", "8", "d", "*", "/", "-", "(", ")"}

InitSteps ==
    /\ input \in Strings(StepAlphabet, MaxStepLen)
    /\ params = NoParams
    /\ OneBag(Streams(1, 1))

SpecSteps == InitSteps /\ [][Next]_vars

\* the calls that run eval_as once, in one mode
OneModeCalls == {"eval_total", "eval_min", "eval_max", "eval_ave"}

\* the last call ran eval_as once and the model followed it to its return
RanOneMode == Last.op \in OneModeCalls /\ Last.ret.kind # "Inexact"

\* C11 (as amended): in each of the four modes every collapse step of the
\* parentheses, dice, multiplicative and additive passes leaves fewer
\* operators and parentheses in the working string than it found, so eval_as
\* takes no more steps than the normalized input has characters; in Roll,
\* Minimum and Maximum mode every step also puts in a literal strictly
\* shorter than the text it replaces.
CollapseStepsBounded ==
    RanOneMode =>
        /\ Last.unreduced = 0
        /\ Last.steps <= Len(Last.norm)
        /\ Last.op # "eval_ave" => Last.unshrunk = 0

\* C11 (witness): an Average-mode evaluation returned a value after several
\* collapse steps, one of which put in a literal no shorter than the text it
\* replaced.
AverageStepDidNotShrink ==
    /\ Called("eval_ave") /\ Last.ret.kind = "Ok"
    /\ Last.steps > 1 /\ Last.unshrunk > 0
    /\ Last.steps <= Len(Last.norm)

\* C11 (as stated): in each of the four modes every collapse step replaces
\* the matched text by a literal strictly shorter than it.
EveryCollapseStepShrinks ==
    RanOneMode => Last.unshrunk = 0

=============================================================================
